---- MODULE Spec2Model ----
(***************************************************************************)
(* goresolve (package resolve): Resolver (validation and invocation), the  *)
(* ProductionMap registry with its cycle check, and the PossibilityNode    *)
(* tree (build, count, prune).                                             *)
(*                                                                         *)
(* State: pm is the registry, tree the root the caller holds (<<>> while   *)
(* none is built), call the call made last with what it returned.          *)
(* Four specifications: Spec registers resolvers; SpecTree registers,      *)
(* then builds a tree and prunes it; SpecResolve invokes one resolver;     *)
(* SpecBuild runs the tree builder call by call on a stored registry.      *)
(*                                                                         *)
(* A reflect.Type is a string.  A Resolver is a record                     *)
(*   [fn, kind, ins, outs]                                                 *)
(* fn   : which Go function value is wrapped (its identity),               *)
(* kind : reflect.Kind of ResolverFunc ("func" or something else),         *)
(* ins  : the parameter types in order, outs : the result types in order.  *)
(* A Go pointer that may be nil is a sequence of length 0 or 1.            *)
(* A *Resolver into the registry is the slot <<t, i>> : element i of       *)
(* pm[t].                                                                  *)
(***************************************************************************)
EXTENDS Integers, Sequences, FiniteSets, TLC

VARIABLES pm, tree, call

vars == <<pm, tree, call>>

-----------------------------------------------------------------------------
(* Bounds of the model *)

\* registry size explored by the registry specification
MaxProducers == 3

\* registry size explored by the tree specification
MaxRecipes == 4

\* number of values passed to Resolve in the invocation specification
MaxInputs == 4

\* how many resolvers a registry written without Add holds
MaxStored == 3

-----------------------------------------------------------------------------
(* Types *)

ErrorType == "error"

\* errorInterface: the types that implement error (Implements(errorInterface))
errorInterface == {ErrorType, "*MyError"}

Range(s) == {s[i] : i \in 1..Len(s)}

-----------------------------------------------------------------------------
(* Resolver *)

\* TypeOf with a fault: two resolvers compare equal only if they wrap the same function
TypeOfIdentity(r) == <<r.kind, r.ins, r.outs, r.fn>>

\* reflect.TypeOf(r.ResolverFunc): for a function, its signature
TypeOf(r) == <<r.kind, r.ins, r.outs>>

InputTypes(r) == r.ins

OutputType(r) == r.outs[1]

NoError == "nil"

Validate(r) ==
    IF r.kind # "func" THEN "Not a function"
    ELSE IF Len(r.ins) = 0 THEN "No inputs"
    ELSE IF \E i, j \in 1..Len(InputTypes(r)) : i < j /\ InputTypes(r)[i] = InputTypes(r)[j]
         THEN "Duplicate argument types not allowed"
    ELSE IF Len(r.outs) # 2 THEN "Expected 2 outputs"
    ELSE IF r.outs[2] \notin errorInterface
         THEN "Second output does not implement error interface"
    ELSE NoError

\* MissingInputs with a fault: only the first wanted type is looked for
MissingInputsFirstOnly(r, have) ==
    SelectSeq(SubSeq(InputTypes(r), 1, 1), LAMBDA t : t \notin Range(have))

\* MissingInputs: the wanted types absent from have, in declared order
MissingInputs(r, have) ==
    SelectSeq(InputTypes(r), LAMBDA t : t \notin Range(have))

ErrArity == "Expected n inputs, got m"
ErrArgType == "Expected argument type to be t, got u"
ErrOutputs == "Expected 2 outputs, got n"
ErrOutputType == "Expected first output type to be t, got u after evaluation"
ErrNotError == "Second output does not implement error interface after evaluation"

\* r.Resolve(inputs...): inputs are the types of the reflect.Values given,
\* fnErr the error the wrapped function returns when called (NoError for
\* nil).  ret is the *reflect.Value returned (<<>> for nil, else a pointer
\* to a value of the type shown), invoked whether the function was called.
ResolveResult(r, inputs, fnErr) ==
    IF Len(r.ins) # Len(inputs)
    THEN [ret |-> <<>>, err |-> ErrArity, invoked |-> FALSE]
    ELSE IF \E i \in 1..Len(r.ins) : r.ins[i] # inputs[i]
    THEN [ret |-> <<>>, err |-> ErrArgType, invoked |-> FALSE]
    ELSE LET outputValues == r.outs
         IN  IF Len(outputValues) # 2
             THEN [ret |-> <<>>, err |-> ErrOutputs, invoked |-> TRUE]
             ELSE IF outputValues[1] # OutputType(r)
             THEN [ret |-> <<>>, err |-> ErrOutputType, invoked |-> TRUE]
             ELSE IF outputValues[2] \notin errorInterface
             THEN [ret |-> <<>>, err |-> ErrNotError, invoked |-> TRUE]
             ELSE [ret |-> <<outputValues[1]>>, err |-> fnErr, invoked |-> TRUE]

-----------------------------------------------------------------------------
(* ProductionMap: a Go map from reflect.Type to []Resolver *)

EmptyMap == [t \in {} |-> <<>>]

\* pm[t]: the zero value (a nil slice) for a missing key
At(m, t) == IF t \in DOMAIN m THEN m[t] ELSE <<>>

Put(m, t, v) == [x \in (DOMAIN m) \cup {t} |-> IF x = t THEN v ELSE m[x]]

Delete(m, t) == [x \in (DOMAIN m) \ {t} |-> m[x]]

\* every *Resolver into the registry
Slots(m) == UNION {{<<t, i>> : i \in 1..Len(m[t])} : t \in DOMAIN m}

Deref(m, s) == m[s[1]][s[2]]

Size(m) == Cardinality(Slots(m))

\* HasCycle with a fault: one visited set shared by the whole walk, no clone per branch.
\* Walk(todo, seen) visits the slots of todo in order and returns
\* [found, seen] as the shared map stands afterwards.
RECURSIVE WalkShared(_, _, _)
WalkShared(m, todo, seen) ==
    IF todo = <<>> THEN [found |-> FALSE, seen |-> seen]
    ELSE LET r == Head(todo)
         IN  IF r \in seen THEN [found |-> TRUE, seen |-> seen]
             ELSE LET in == InputTypes(Deref(m, r))
                      below == [k \in 1..Len(in) |->
                                  [i \in 1..Len(At(m, in[k])) |-> <<in[k], i>>]]
                      flat == IF Len(in) = 0 THEN <<>>
                              ELSE IF Len(in) = 1 THEN below[1]
                              ELSE below[1] \o below[2]
                      sub == WalkShared(m, flat, seen \cup {r})
                  IN  IF sub.found THEN sub ELSE WalkShared(m, Tail(todo), sub.seen)

HasCycleShared(m, r, visited) == WalkShared(m, <<r>>, visited).found

\* HasCycle with a fault: only the first parameter type is followed
RECURSIVE HasCycleFirstInput(_, _, _)
HasCycleFirstInput(m, r, visited) ==
    IF r \in visited THEN TRUE
    ELSE LET v == visited \cup {r}
             in == InputTypes(Deref(m, r))
         IN  \E k \in 1..Len(in) :
               /\ k = 1
               /\ \E i \in 1..Len(At(m, in[k])) :
                     HasCycleFirstInput(m, <<in[k], i>>, v)

RECURSIVE HasCycle(_, _, _)
HasCycle(m, r, visited) ==
    IF r \in visited THEN TRUE
    ELSE LET v == visited \cup {r}
             in == InputTypes(Deref(m, r))
         IN  \E k \in 1..Len(in) :
               \E i \in 1..Len(At(m, in[k])) :
                 HasCycle(m, <<in[k], i>>, v)

IsDAG(m) == \A r \in Slots(m) : ~HasCycle(m, r, {})

ErrInvalid == "Failed to add Resolver"
ErrConflict == "Resolver conflict"
ErrCircular == "Circular dependencies not allowed"

\* Rollback with a fault: the emptied bucket is left in the map
RollbackKeepBucket(m, outputType) ==
    Put(m, outputType, SubSeq(m[outputType], 1, Len(m[outputType]) - 1))

\* the rollback of Add (lines 196-199) on the map with r appended
Rollback(m, outputType) ==
    LET cut == SubSeq(m[outputType], 1, Len(m[outputType]) - 1)
    IN  IF Len(cut) = 0 THEN Delete(m, outputType) ELSE Put(m, outputType, cut)

\* the registry and the error Add(r) leaves, as <<map, error>>
AddResult(m, r) ==
    IF Validate(r) # NoError THEN <<m, ErrInvalid>>
    ELSE LET outputType == OutputType(r)
             added == Put(m, outputType, Append(At(m, outputType), r))
         IN  IF \E i \in 1..Len(At(m, outputType)) :
                    TypeOf(r) = TypeOf(At(m, outputType)[i])
             THEN <<m, ErrConflict>>
             ELSE IF ~IsDAG(added)
                  THEN <<Rollback(added, outputType), ErrCircular>>
                  ELSE <<added, NoError>>

NoCall == [op |-> "none"]

Add(r) ==
    /\ pm' = AddResult(pm, r)[1]
    /\ call' = [op |-> "Add", r |-> <<r>>, pre |-> pm, err |-> AddResult(pm, r)[2]]
    /\ UNCHANGED tree

-----------------------------------------------------------------------------
(* PossibilityNode: [Resolver, Inputs, NextSteps].  Resolver is a          *)
(* *Resolver (<<>> at the root), NextSteps a sequence of nodes.            *)

RECURSIVE Perms(_)
Perms(S) ==
    IF S = {} THEN {<<>>}
    ELSE UNION {{<<x>> \o p : p \in Perms(S \ {x})} : x \in S}

\* the pointers List collects when range visits the keys in the order keys
RECURSIVE ListIn(_, _)
ListIn(m, keys) ==
    IF keys = <<>> THEN <<>>
    ELSE [j \in 1..Len(m[Head(keys)]) |-> <<Head(keys), j>>] \o ListIn(m, Tail(keys))

\* List: Go leaves the order in which range visits a map's keys open, so
\* every order of the keys is a possible result; a bucket keeps its order
List(m) == {ListIn(m, keys) : keys \in Perms(DOMAIN m)}

\* IsNextStep with a fault: the test on the output type is left out
IsNextStepAgain(m, r, inputs) ==
    Len(MissingInputs(Deref(m, r), inputs)) = 0

\* the two tests of ResolverLoop that let a resolver become a next step
IsNextStep(m, r, inputs) ==
    /\ OutputType(Deref(m, r)) \notin Range(inputs)
    /\ Len(MissingInputs(Deref(m, r), inputs)) = 0

\* ResolverLoop with a fault: an output type already held ends the loop (break)
\* instead of skipping the resolver (continue)
RECURSIVE ResolverLoopBreak(_, _, _, _)
ResolverLoopBreak(m, list, inputs, below) ==
    IF list = <<>> THEN {<<>>}
    ELSE LET r == Head(list)
         IN  IF OutputType(Deref(m, r)) \in Range(inputs) THEN {<<>>}
             ELSE IF Len(MissingInputs(Deref(m, r), inputs)) > 0
                  THEN ResolverLoopBreak(m, Tail(list), inputs, below)
             ELSE {<<[Resolver |-> <<r>>, Inputs |-> inputs, NextSteps |-> ns]>> \o rest :
                      ns \in below[r],
                      rest \in ResolverLoopBreak(m, Tail(list), inputs, below)}

\* the loop of BuildPossibilityTree over one result of List: the NextSteps
\* it can append to root, below[r] being what the recursive call for r can
\* build under the node of r
RECURSIVE ResolverLoop(_, _, _, _)
ResolverLoop(m, list, inputs, below) ==
    IF list = <<>> THEN {<<>>}
    ELSE LET r == Head(list)
         IN  IF OutputType(Deref(m, r)) \in Range(inputs)
                  THEN ResolverLoop(m, Tail(list), inputs, below)
             ELSE IF Len(MissingInputs(Deref(m, r), inputs)) > 0
                  THEN ResolverLoop(m, Tail(list), inputs, below)
             ELSE {<<[Resolver |-> <<r>>, Inputs |-> inputs, NextSteps |-> ns]>> \o rest :
                      ns \in below[r],
                      rest \in ResolverLoop(m, Tail(list), inputs, below)}

\* the loop run over every order List can return
AnyList(m, inputs, below) ==
    UNION {ResolverLoop(m, list, inputs, below) : list \in List(m)}

\* BuildPossibilityTree(root, inputs...): every NextSteps it can leave in root
RECURSIVE BuildPossibilityTree(_, _)
BuildPossibilityTree(m, inputs) ==
    UNION {AnyList(m, inputs, below) :
             below \in {[r \in {s \in Slots(m) : IsNextStep(m, s, inputs)} |->
                          BuildPossibilityTree(m, Append(inputs, OutputType(Deref(m, r))))]}}

\* PossibilityTree(inputs...): every root it can return
PossibilityTree(m, inputs) ==
    {[Resolver |-> <<>>, Inputs |-> <<>>, NextSteps |-> ns] :
        ns \in BuildPossibilityTree(m, inputs)}

RECURSIVE Sum(_)
Sum(s) == IF s = <<>> THEN 0 ELSE Head(s) + Sum(Tail(s))

\* Count with a fault: the node and its children only
CountShallow(pn) == 1 + Len(pn.NextSteps)

RECURSIVE Count(_)
Count(pn) == 1 + Sum([i \in 1..Len(pn.NextSteps) |-> Count(pn.NextSteps[i])])

ErrBranch == "Branch could not derive output; cutting it"

\* PruneFor with a fault: a node that reaches the output keeps its children
RECURSIVE PruneForNoCut(_, _, _)
PruneForNoCut(m, pn, output) ==
    IF pn.Resolver # <<>> /\ OutputType(Deref(m, pn.Resolver[1])) = output
    THEN [pn |-> pn, err |-> NoError]
    ELSE LET next == [i \in 1..Len(pn.NextSteps) |->
                        PruneForNoCut(m, pn.NextSteps[i], output)]
             keepIdx == SelectSeq([i \in 1..Len(pn.NextSteps) |-> i],
                                  LAMBDA i : next[i].err = NoError)
         IN  IF Len(keepIdx) = 0
             THEN [pn |-> [pn EXCEPT !.NextSteps = <<>>], err |-> ErrBranch]
             ELSE [pn |-> [pn EXCEPT !.NextSteps =
                             [k \in 1..Len(keepIdx) |-> next[keepIdx[k]].pn]],
                   err |-> NoError]

\* PruneFor with a fault: a childless node is kept whatever it produces
RECURSIVE PruneForKeepLeaves(_, _, _)
PruneForKeepLeaves(m, pn, output) ==
    IF pn.Resolver # <<>> /\ OutputType(Deref(m, pn.Resolver[1])) = output
    THEN [pn |-> [pn EXCEPT !.NextSteps = <<>>], err |-> NoError]
    ELSE LET next == [i \in 1..Len(pn.NextSteps) |->
                        PruneForKeepLeaves(m, pn.NextSteps[i], output)]
             keepIdx == SelectSeq([i \in 1..Len(pn.NextSteps) |-> i],
                                  LAMBDA i : next[i].err = NoError)
         IN  IF Len(keepIdx) = 0 /\ pn.Resolver = <<>>
             THEN [pn |-> [pn EXCEPT !.NextSteps = <<>>], err |-> ErrBranch]
             ELSE [pn |-> [pn EXCEPT !.NextSteps =
                             [k \in 1..Len(keepIdx) |-> next[keepIdx[k]].pn]],
                   err |-> NoError]

\* pn.PruneFor(output): the node as the call leaves it, and the error
RECURSIVE PruneFor(_, _, _)
PruneFor(m, pn, output) ==
    IF pn.Resolver # <<>> /\ OutputType(Deref(m, pn.Resolver[1])) = output
    THEN [pn |-> [pn EXCEPT !.NextSteps = <<>>], err |-> NoError]
    ELSE LET next == [i \in 1..Len(pn.NextSteps) |->
                        PruneFor(m, pn.NextSteps[i], output)]
             keepIdx == SelectSeq([i \in 1..Len(pn.NextSteps) |-> i],
                                  LAMBDA i : next[i].err = NoError)
         IN  IF Len(keepIdx) = 0
             THEN [pn |-> [pn EXCEPT !.NextSteps = <<>>], err |-> ErrBranch]
             ELSE [pn |-> [pn EXCEPT !.NextSteps =
                             [k \in 1..Len(keepIdx) |-> next[keepIdx[k]].pn]],
                   err |-> NoError]

\* root = pm.PossibilityTree(inputs...)
Build(inputs) ==
    /\ \E root \in PossibilityTree(pm, inputs) : tree' = <<root>>
    /\ call' = [op |-> "PossibilityTree", inputs |-> inputs]
    /\ UNCHANGED pm

\* err = root.PruneFor(output) on the tree held
Prune(output) ==
    /\ tree # <<>>
    /\ tree' = <<PruneFor(pm, tree[1], output).pn>>
    /\ call' = [op |-> "PruneFor", inputs |-> call.inputs, output |-> output,
                before |-> tree[1], err |-> PruneFor(pm, tree[1], output).err]
    /\ UNCHANGED pm

\* ov, err := r.Resolve(inputs...)
Resolve(r, inputs, fnErr) ==
    /\ call' = [op |-> "Resolve", r |-> <<r>>, inputs |-> inputs, fnErr |-> fnErr,
                ret |-> ResolveResult(r, inputs, fnErr).ret,
                err |-> ResolveResult(r, inputs, fnErr).err,
                invoked |-> ResolveResult(r, inputs, fnErr).invoked]
    /\ UNCHANGED <<pm, tree>>

-----------------------------------------------------------------------------
(* The resolvers offered to the registry: every one-parameter signature    *)
(* over the four types of the cycle tests, some two-parameter signatures,  *)
(* a second function of an existing signature, one that differs from it   *)
(* in the error type only, and the malformed ones of                       *)
(* TestValidateResolvers.  fn tells apart different Go functions of one    *)
(* signature: a function is the whole record.                              *)

Categories == {"int", "string", "float64", "byte"}

Func(fn, ins, outs) == [fn |-> fn, kind |-> "func", ins |-> ins, outs |-> outs]

Producers ==
    {Func("f", <<a>>, <<b, ErrorType>>) : a, b \in Categories}
    \cup {Func("f", <<"int", "string">>, <<"float64", ErrorType>>),
          Func("f", <<"string", "int">>, <<"float64", ErrorType>>),
          Func("f", <<"string", "float64">>, <<"byte", ErrorType>>),
          Func("f", <<"int", "float64">>, <<"string", ErrorType>>),
          Func("f", <<"int", "byte">>, <<"int", ErrorType>>),
          Func("g", <<"int">>, <<"string", ErrorType>>),
          Func("h", <<"int">>, <<"string", "*MyError">>)}
    \cup {Func("noInputs", <<>>, <<"string", ErrorType>>),
          Func("dupArgs", <<"int", "int">>, <<"string", ErrorType>>),
          Func("tooFewOutputs", <<"int">>, <<"string">>),
          Func("tooManyOutputs", <<"int">>, <<"string", ErrorType, "string">>),
          Func("noErrorOutput", <<"int">>, <<"string", "string">>),
          [fn |-> "notAFunc", kind |-> "struct", ins |-> <<>>, outs |-> <<>>]}

-----------------------------------------------------------------------------
Init ==
    /\ pm = EmptyMap
    /\ tree = <<>>
    /\ call = NoCall

Register == \E r \in Producers : Size(pm) < MaxProducers /\ Add(r)

Next == Register

Spec == Init /\ [][Next]_vars

-----------------------------------------------------------------------------
(* The tree specification: the resolvers of TestPossibilityTreeBuildAxe,   *)
(* two more that put several resolvers under Stick, and one malformed;     *)
(* a run registers resolvers, then builds one tree and prunes it once.      *)

Types == {"Boulder", "Tree", "Stone", "Stick", "Axe", "Hammer"}

chiselStone == Func("chiselStone", <<"Boulder">>, <<"Stone", ErrorType>>)
pickupStick == Func("pickupStick", <<"Tree">>, <<"Stick", ErrorType>>)
assembleAxe == Func("assembleAxe", <<"Stick", "Stone">>, <<"Axe", ErrorType>>)
assembleHammer == Func("assembleHammer", <<"Stone", "Stick">>, <<"Hammer", ErrorType>>)

Recipes ==
    {chiselStone, pickupStick, assembleAxe, assembleHammer,
     Func("splinterStone", <<"Stone">>, <<"Stick", ErrorType>>),
     Func("salvageAxe", <<"Axe">>, <<"Stick", ErrorType>>),
     Func("noInputs", <<>>, <<"Stone", ErrorType>>)}

\* the available types a tree is built from: at most three of the four materials
Availables ==
    {<<>>} \cup {<<a>> : a \in Types \ {"Axe", "Hammer"}}
    \cup {<<"Boulder", "Tree">>, <<"Tree", "Boulder">>, <<"Boulder", "Stone">>,
          <<"Tree", "Stick">>, <<"Stone", "Stick">>, <<"Boulder", "Stick">>,
          <<"Boulder", "Tree", "Stone">>, <<"Axe">>}

RegisterRecipe ==
    \E r \in Recipes : tree = <<>> /\ Size(pm) < MaxRecipes /\ Add(r)

BuildTree == \E inputs \in Availables : tree = <<>> /\ Build(inputs)

PruneTree == \E output \in Types : call.op = "PossibilityTree" /\ Prune(output)

NextTree == RegisterRecipe \/ BuildTree \/ PruneTree

SpecTree == Init /\ [][NextTree]_vars

-----------------------------------------------------------------------------
(* The invocation specification: the resolvers and values of the           *)
(* TestResolve* tests; a run makes one call, passing up to MaxInputs        *)
(* values, and the wrapped function either succeeds or fails.              *)

ValueTypes == {"ID", "Email", "PasswordHash", "int"}

StringToUser == Func("StringToUser", <<"ID", "Email", "PasswordHash">>, <<"*User", ErrorType>>)

Callables ==
    {StringToUser,
     Func("goodResolver", <<"Email">>, <<"*User", ErrorType>>),
     Func("badResolverNoErrorOutput", <<"Email">>, <<"*User", "string">>),
     Func("badResolverTooFewOutputs", <<"Email">>, <<"*User">>)}

InputValues == UNION {[1..n -> ValueTypes] : n \in 0..MaxInputs}

ErrProducer == "the wrapped function failed"

\* a call about to be made: the resolver, the values and what the wrapped
\* function will answer
InitResolve ==
    /\ pm = EmptyMap
    /\ tree = <<>>
    /\ call \in {[op |-> "pending", r |-> <<r>>, inputs |-> inputs, fnErr |-> fnErr] :
                   r \in Callables, inputs \in InputValues,
                   fnErr \in {NoError, ErrProducer}}

ResolveCall ==
    call.op = "pending" /\ Resolve(call.r[1], call.inputs, call.fnErr)

NextResolve == ResolveCall

SpecResolve == InitResolve /\ [][NextResolve]_vars

-----------------------------------------------------------------------------
(* The walk specification: BuildPossibilityTree run call by call.  A       *)
(* ProductionMap is an exported map type, so a registry can be written     *)
(* key by key without Add and then holds whatever was stored, cycles       *)
(* included.  While the walk runs, call.stack holds one frame per open     *)
(* call of BuildPossibilityTree: root is the node the call fills, inputs   *)
(* its inputs, list what is left of its range over pm.List().              *)

petrifyStick == Func("petrifyStick", <<"Stick">>, <<"Stone", ErrorType>>)
crushStone == Func("crushStone", <<"Stone">>, <<"Boulder", ErrorType>>)
polishStone == Func("polishStone", <<"Stone">>, <<"Stone", ErrorType>>)

\* one-input resolvers of the tests next to resolvers that close cycles with
\* them; three output types in all
Loops ==
    {chiselStone, pickupStick,
     Func("splinterStone", <<"Stone">>, <<"Stick", ErrorType>>),
     petrifyStick, crushStone, polishStone}

\* pm[r.OutputType()] = append(pm[r.OutputType()], r), with none of Add's tests
Store(m, r) == Put(m, OutputType(r), Append(At(m, OutputType(r)), r))

RECURSIVE StoreAll(_)
StoreAll(rs) ==
    IF rs = <<>> THEN EmptyMap
    ELSE Store(StoreAll(SubSeq(rs, 1, Len(rs) - 1)), rs[Len(rs)])

\* every registry of up to MaxStored different resolvers of Loops
Registries ==
    {StoreAll(rs) :
        rs \in UNION {{q \in [1..n -> Loops] :
                         \A i, j \in 1..n : i # j => q[i] # q[j]} : n \in 0..MaxStored}}

\* the inputs of the walks: nothing, one material, or two
Givens == {<<>>, <<"Boulder">>, <<"Tree">>, <<"Stone">>, <<"Boulder", "Tree">>}

InitBuild ==
    /\ pm \in Registries
    /\ tree = <<>>
    /\ call \in {[op |-> "pending", inputs |-> inputs] : inputs \in Givens}

Running == call.op = "BuildPossibilityTree"

\* the frame of the innermost open call
Top == call.stack[Len(call.stack)]

\* PossibilityTree: root = &PossibilityNode{}, and the first call starts its range
EnterTree ==
    /\ call.op = "pending"
    /\ \E list \in List(pm) :
         call' = [op |-> "BuildPossibilityTree", inputs |-> call.inputs,
                  stack |-> <<[root |-> [Resolver |-> <<>>, Inputs |-> <<>>,
                                         NextSteps |-> <<>>],
                               inputs |-> call.inputs, list |-> list]>>]
    /\ UNCHANGED <<pm, tree>>

\* continue: the resolver at hand is not a next step
SkipStep ==
    /\ Running
    /\ Top.list # <<>>
    /\ ~IsNextStep(pm, Head(Top.list), Top.inputs)
    /\ call' = [call EXCEPT !.stack[Len(call.stack)].list = Tail(@)]
    /\ UNCHANGED <<pm, tree>>

\* pn is made and pm.BuildPossibilityTree(pn, inputsNext...) is entered
DescendStep ==
    /\ Running
    /\ Top.list # <<>>
    /\ IsNextStep(pm, Head(Top.list), Top.inputs)
    /\ \E list \in List(pm) :
         call' = [call EXCEPT !.stack =
                    Append(@, [root |-> [Resolver |-> <<Head(Top.list)>>,
                                         Inputs |-> Top.inputs,
                                         NextSteps |-> <<>>],
                               inputs |-> Append(Top.inputs,
                                                 OutputType(Deref(pm, Head(Top.list)))),
                               list |-> list])]
    /\ UNCHANGED <<pm, tree>>

\* the range of an inner call is over: it returns, and its caller appends pn
\* to root.NextSteps and goes on to its next resolver
ReturnStep ==
    /\ Running
    /\ Top.list = <<>>
    /\ Len(call.stack) > 1
    /\ call' = [call EXCEPT !.stack =
                  SubSeq(@, 1, Len(@) - 2)
                  \o <<[@[Len(@) - 1] EXCEPT !.root.NextSteps = Append(@, Top.root),
                                             !.list = Tail(@)]>>]
    /\ UNCHANGED <<pm, tree>>

\* the range of the first call is over: PossibilityTree returns root
FinishTree ==
    /\ Running
    /\ Top.list = <<>>
    /\ Len(call.stack) = 1
    /\ tree' = <<Top.root>>
    /\ call' = [op |-> "PossibilityTree", inputs |-> call.inputs]
    /\ UNCHANGED pm

NextBuild == EnterTree \/ SkipStep \/ DescendStep \/ ReturnStep \/ FinishTree

\* the walk is one sequential call: whatever step is possible is taken
SpecBuild == InitBuild /\ [][NextBuild]_vars /\ WF_vars(NextBuild)

-----------------------------------------------------------------------------
(* The dependency graph of a registry, stated without the walk of HasCycle *)

\* an edge from every required input type of r to r's output type
EdgesOf(r) == {<<r.ins[k], r.outs[1]>> : k \in 1..Len(r.ins)}

Edges(m) == UNION {EdgesOf(Deref(m, s)) : s \in Slots(m)}

\* the types reachable from the set S along E in zero or more steps
RECURSIVE ReachSet(_, _)
ReachSet(E, S) ==
    LET n == S \cup {e[2] : e \in {x \in E : x[1] \in S}}
    IN  IF n = S THEN S ELSE ReachSet(E, n)

\* no type reaches itself in one or more steps
Acyclic(E) == \A e \in E : e[1] \notin ReachSet(E, {e[2]})

\* the last call was Add of a well-formed resolver
AddedValid == call.op = "Add" /\ Validate(call.r[1]) = NoError

\* C1: after any sequence of Add calls the dependency graph of the registry
\* is acyclic (no type reaches itself, a resolver requiring its own output
\* included), and a well-formed resolver whose insertion would close a cycle
\* is rejected with the circular-dependency error.
C1_Acyclic ==
    /\ Acyclic(Edges(pm))
    /\ AddedValid /\ ~Acyclic(Edges(call.pre) \cup EdgesOf(call.r[1]))
         => call.err = ErrCircular

\* a resolver closing a three-step cycle was rejected
C1_Witness ==
    /\ AddedValid /\ call.err = ErrCircular
    /\ Size(pm) = 2
    /\ Acyclic(Edges(pm) \cup {<<e[2], e[1]>> : e \in EdgesOf(call.r[1])})

\* C2: a failed Add leaves the registry exactly as it was: the same keys
\* and the same resolvers in the same order under every key.
C2_Atomic ==
    call.op = "Add" /\ call.err # NoError => pm = call.pre

\* a self-requiring resolver was rejected from the empty registry, which is empty again
C2_Witness ==
    call.op = "Add" /\ call.err = ErrCircular /\ call.pre = EmptyMap /\ pm = EmptyMap

\* a registered resolver with the parameter and result types of r
SameSignature(m, r) ==
    \E s \in Slots(m) : Deref(m, s).ins = r.ins /\ Deref(m, s).outs = r.outs

\* (C3 as stated) Add of a well-formed resolver fails as a duplicate exactly
\* when the same function is already registered under its output type.
C3_Original ==
    AddedValid =>
        (call.err = ErrConflict <=> \E s \in Slots(call.pre) : Deref(call.pre, s) = call.r[1])

\* C3: Add of a well-formed resolver fails as a duplicate exactly when a
\* resolver of the same function type (the same parameter types in the same
\* order and the same two result types) is already registered, whichever
\* function it wraps; the registry is then unchanged.  Resolvers of
\* different parameter lists can share an output type.
C3_DuplicateBySignature ==
    AddedValid =>
        /\ call.err = ErrConflict <=> SameSignature(call.pre, call.r[1])
        /\ call.err = ErrConflict => pm = call.pre

\* a different function of an already registered signature was rejected,
\* and the bucket still holds one resolver
C3_Witness ==
    /\ AddedValid /\ call.err = ErrConflict
    /\ \A s \in Slots(call.pre) : Deref(call.pre, s) # call.r[1]
    /\ Len(pm[OutputType(call.r[1])]) = 1

\* the registry as Add holds it between the append and the cycle check
Tentative == Put(call.pre, OutputType(call.r[1]),
                 Append(At(call.pre, OutputType(call.r[1])), call.r[1]))

\* C4: the walk is exact: on the registry Add checks, IsDAG says "cyclic"
\* exactly when the dependency graph has a cycle, so a well-formed resolver
\* that is no duplicate is rejected as circular exactly when it closes one.
C4_CycleCheckExact ==
    AddedValid /\ call.err # ErrConflict =>
        /\ IsDAG(Tentative) <=> Acyclic(Edges(Tentative))
        /\ call.err = ErrCircular <=> ~Acyclic(Edges(Tentative))

\* the resolvers reachable by the walk from the producers of type t
RECURSIVE Upstream(_, _, _)
Upstream(m, t, depth) ==
    IF depth = 0 THEN {}
    ELSE LET here == {<<t, i>> : i \in 1..Len(At(m, t))}
         IN  here \cup UNION {UNION {Upstream(m, Deref(m, s).ins[k], depth - 1) :
                                       k \in 1..Len(Deref(m, s).ins)} : s \in here}

\* two parameters of one registered resolver lead to the same resolver
Diamond(m) ==
    \E s \in Slots(m) :
      \E j, k \in 1..Len(Deref(m, s).ins) :
        /\ j < k
        /\ Upstream(m, Deref(m, s).ins[j], Size(m)) \cap
           Upstream(m, Deref(m, s).ins[k], Size(m)) # {}

\* a resolver completing a diamond was accepted
C4_Witness ==
    AddedValid /\ call.err = NoError /\ Diamond(pm) /\ ~Diamond(call.pre)

-----------------------------------------------------------------------------
(* Trees, stated without the builder *)

\* the output type of the resolver a non-root node applies
Produces(m, pn) == OutputType(Deref(m, pn.Resolver[1]))

RECURSIVE NodesOf(_)
NodesOf(pn) == {pn} \cup UNION {NodesOf(pn.NextSteps[i]) : i \in 1..Len(pn.NextSteps)}

\* every type obtainable from have by applying registered resolvers whose
\* required inputs are all at hand
RECURSIVE Closure(_, _)
Closure(m, have) ==
    LET more == have \cup {OutputType(Deref(m, s)) :
                             s \in {x \in Slots(m) : Range(Deref(m, x).ins) \subseteq have}}
    IN  IF more = have THEN have ELSE Closure(m, more)

\* some registered resolver of target can be applied after a chain of
\* registered resolvers, each applied with all its inputs at hand
Derivable(m, have, target) ==
    \E s \in Slots(m) :
        /\ OutputType(Deref(m, s)) = target
        /\ Range(Deref(m, s).ins) \subseteq Closure(m, have)

Pruned == call.op = "PruneFor"

Built == call.op = "PossibilityTree"

\* (C5 as stated) whether or not the target is among the available types,
\* PruneFor on a built tree fails exactly when no chain of registered
\* resolvers can reach the target, and a failure leaves the root alone.
C5_Original ==
    Pruned =>
        /\ call.err # NoError <=> ~Derivable(pm, Range(call.inputs), call.output)
        /\ call.err # NoError => Count(tree[1]) = 1

\* C5: for a target that is not among the available types, PruneFor on a
\* built tree fails exactly when no chain of registered resolvers can reach
\* the target; for a target that is among them it always fails, even when a
\* registered resolver could produce it again; a failure is the branch error
\* and leaves the root without next steps (count 1).
C5_Unreachable ==
    Pruned =>
        /\ call.output \notin Range(call.inputs) =>
             (call.err # NoError <=> ~Derivable(pm, Range(call.inputs), call.output))
        /\ call.output \in Range(call.inputs) => call.err # NoError
        /\ call.err \in {NoError, ErrBranch}
        /\ call.err # NoError => tree[1].NextSteps = <<>> /\ Count(tree[1]) = 1

\* a tree with a branch was pruned for a target no branch reaches, though
\* a resolver of that target is registered
C5_Witness ==
    /\ Pruned /\ call.err = ErrBranch
    /\ call.output \notin Range(call.inputs)
    /\ call.output \in DOMAIN pm
    /\ Count(call.before) > 1

RECURSIVE SubTree(_, _)
RECURSIVE Embeds(_, _)
\* t is b with some subtrees removed: nothing added, moved or reordered
SubTree(t, b) ==
    /\ t.Resolver = b.Resolver
    /\ t.Inputs = b.Inputs
    /\ Embeds(t.NextSteps, b.NextSteps)

Embeds(ts, bs) ==
    IF ts = <<>> THEN TRUE
    ELSE IF bs = <<>> THEN FALSE
    ELSE \/ SubTree(Head(ts), Head(bs)) /\ Embeds(Tail(ts), Tail(bs))
         \/ Embeds(ts, Tail(bs))

\* C6: after a successful PruneFor on a built tree the tree is a sub-tree
\* of the one built; every leaf applies a resolver of the target; every node
\* applying a resolver of the target has no next steps; every node below the
\* root has a node applying a resolver of the target at or below it.
C6_PrunedShape ==
    Pruned /\ call.err = NoError =>
        /\ SubTree(tree[1], call.before)
        /\ \A n \in NodesOf(tree[1]) :
             /\ n.NextSteps = <<>> => n.Resolver # <<>> /\ Produces(pm, n) = call.output
             /\ n.Resolver # <<>> /\ Produces(pm, n) = call.output => n.NextSteps = <<>>
             /\ n.Resolver # <<>> =>
                  \E d \in NodesOf(n) : d.Resolver # <<>> /\ Produces(pm, d) = call.output

\* a pruning that dropped branches, cut below a target node, and kept a
\* path of two steps
C6_Witness ==
    /\ Pruned /\ call.err = NoError
    /\ Count(tree[1]) > 2
    /\ \E n \in NodesOf(call.before) :
         n.Resolver # <<>> /\ Produces(pm, n) = call.output /\ n.NextSteps # <<>>
    /\ \E n \in NodesOf(call.before) :
         n.Resolver # <<>> /\ n \notin NodesOf(tree[1])
           /\ [n EXCEPT !.NextSteps = <<>>] \notin NodesOf(tree[1])

\* chain can be applied one resolver after another from have: each has all
\* its inputs at hand and an output not yet at hand
RECURSIVE Applicable(_, _, _)
Applicable(m, chain, have) ==
    IF chain = <<>> THEN TRUE
    ELSE LET r == Deref(m, Head(chain))
         IN  /\ Range(r.ins) \subseteq have
             /\ r.outs[1] \notin have
             /\ Applicable(m, Tail(chain), have \cup {r.outs[1]})

\* the non-empty sequences of registered resolvers applicable from have
Chains(m, have) ==
    {c \in UNION {Perms(X) : X \in SUBSET Slots(m)} : c # <<>> /\ Applicable(m, c, have)}

Registered(m) == {Deref(m, s) : s \in Slots(m)}

BoulderTree == <<"Boulder", "Tree">>

\* C7: the count of a built tree is 1 plus the number of non-empty
\* sequences of registered resolvers applicable one after another from the
\* available types; from Boulder and Tree it is 2, 5, 7 and 13 as chiselStone,
\* pickupStick, assembleAxe and assembleHammer are registered, and 1 for the
\* empty registry.
C7_Count ==
    Built =>
        /\ Count(tree[1]) = 1 + Cardinality(Chains(pm, Range(call.inputs)))
        /\ pm = EmptyMap => Count(tree[1]) = 1
        /\ call.inputs = BoulderTree =>
             /\ Registered(pm) = {chiselStone} => Count(tree[1]) = 2
             /\ Registered(pm) = {chiselStone, pickupStick} => Count(tree[1]) = 5
             /\ Registered(pm) = {chiselStone, pickupStick, assembleAxe}
                  => Count(tree[1]) = 7
             /\ Registered(pm) = {chiselStone, pickupStick, assembleAxe, assembleHammer}
                  => Count(tree[1]) = 13

\* the tree of thirteen nodes of TestPossibilityTreeBuildAxe was built
C7_Witness ==
    /\ Built /\ call.inputs = BoulderTree
    /\ Registered(pm) = {chiselStone, pickupStick, assembleAxe, assembleHammer}
    /\ Count(tree[1]) = 13

\* the registries holding the resolvers of m, registered in any order
Reorderings(m) ==
    {f \in [DOMAIN m -> UNION {Perms(Range(m[t])) : t \in DOMAIN m}] :
        \A t \in DOMAIN m : f[t] \in Perms(Range(m[t]))}

\* a tree with resolvers for pointers and the next steps as a set
RECURSIVE Shape(_, _)
Shape(m, pn) ==
    [Resolver |-> IF pn.Resolver = <<>> THEN <<>> ELSE <<Deref(m, pn.Resolver[1])>>,
     Inputs |-> pn.Inputs,
     NextSteps |-> {Shape(m, pn.NextSteps[i]) : i \in 1..Len(pn.NextSteps)}]

\* C8: whatever the order of registration and whatever order List returns
\* at each call, the tree built from the same resolvers and the same
\* available types has the same count and is the same tree up to the order
\* of next steps.
C8_OrderIndependent ==
    Built =>
        \A m \in Reorderings(pm) :
          \A root \in PossibilityTree(m, call.inputs) :
            /\ Count(root) = Count(tree[1])
            /\ Shape(m, root) = Shape(pm, tree[1])

\* a tree that List's order and the registration order could both have changed
C8_Witness ==
    /\ Built
    /\ Cardinality(PossibilityTree(pm, call.inputs)) > 1
    /\ Cardinality(Reorderings(pm)) > 1
    /\ \E s \in Slots(pm) : OutputType(Deref(pm, s)) \in Range(call.inputs)

\* pn is built as the resolvers and the types at hand after pn require
RECURSIVE WellBuilt(_, _, _)
WellBuilt(m, pn, have) ==
    LET steps == {s \in Slots(m) :
                    /\ OutputType(Deref(m, s)) \notin Range(have)
                    /\ Range(Deref(m, s).ins) \subseteq Range(have)}
    IN  /\ Len(pn.NextSteps) = Cardinality(steps)
        /\ {pn.NextSteps[i].Resolver : i \in 1..Len(pn.NextSteps)} = {<<s>> : s \in steps}
        /\ \A i \in 1..Len(pn.NextSteps) :
             /\ pn.NextSteps[i].Inputs = have
             /\ WellBuilt(m, pn.NextSteps[i], Append(have, Produces(m, pn.NextSteps[i])))

\* C10: in a built tree the root applies no resolver; a node below it
\* records the available types given followed by the outputs applied from
\* the root down to its parent; the next steps of a node are one node for
\* each registered resolver whose output is not among the types at hand after
\* the node and whose inputs all are; so no node applies a resolver whose
\* output is among the types it records.
C10_TreeShape ==
    Built =>
        /\ tree[1].Resolver = <<>>
        /\ WellBuilt(pm, tree[1], call.inputs)
        /\ \A n \in NodesOf(tree[1]) :
             n.Resolver # <<>> => Produces(pm, n) \notin Range(n.Inputs)

\* a tree three steps deep was built where some resolver was left out for a
\* missing input and another for an output already at hand
C10_Witness ==
    /\ Built
    /\ \E n \in NodesOf(tree[1]) : Len(n.Inputs) = Len(call.inputs) + 2
    /\ \E s \in Slots(pm) : OutputType(Deref(pm, s)) \in Range(call.inputs)
    /\ \E s \in Slots(pm) : ~(Range(Deref(pm, s).ins) \subseteq Range(call.inputs))

-----------------------------------------------------------------------------
(* Invocation *)

Resolved == call.op = "Resolve" /\ Validate(call.r[1]) = NoError

\* the values given match the parameters of the resolver in number and,
\* position by position, in type
InputsFit == call.inputs = call.r[1].ins

\* C9: Resolve of a well-formed resolver returns a value or an error, never
\* both: a value only when the values given fit the parameters and the
\* wrapped function reports no failure; when they do not fit it fails
\* without calling the function; when the function fails, its error is
\* returned unchanged and no value with it.
C9_ValueOrError ==
    Resolved =>
        /\ ~(call.ret # <<>> /\ call.err # NoError)
        /\ call.ret # <<>> => InputsFit /\ call.fnErr = NoError
        /\ ~InputsFit => call.err # NoError /\ call.ret = <<>> /\ ~call.invoked
        /\ call.invoked /\ call.fnErr # NoError => call.err = call.fnErr /\ call.ret = <<>>

-----------------------------------------------------------------------------
(* Termination of the walk *)

\* the output types down the open calls, outermost first
ChainOf(stack) == [k \in 1..Len(stack) - 1 |-> Produces(pm, stack[k + 1].root)]

\* the output types down every way from pn to a leaf
RECURSIVE PathsFrom(_, _)
PathsFrom(m, pn) ==
    IF pn.NextSteps = <<>> THEN {<<>>}
    ELSE UNION {{<<Produces(m, pn.NextSteps[i])>> \o p : p \in PathsFrom(m, pn.NextSteps[i])} :
                  i \in 1..Len(pn.NextSteps)}

\* the output types some resolver of the registry has
Outputs(m) == {OutputType(Deref(m, s)) : s \in Slots(m)}

ChainOK(chain, given) ==
    /\ \A i, j \in 1..Len(chain) : i # j => chain[i] # chain[j]
    /\ Range(chain) \cap Range(given) = {}
    /\ Len(chain) <= Cardinality(Outputs(pm))

C11_Chains ==
    /\ Running => ChainOK(ChainOf(call.stack), call.inputs)
    /\ Built => /\ \A p \in PathsFrom(pm, tree[1]) : ChainOK(p, call.inputs)
                /\ tree[1] \in PossibilityTree(pm, call.inputs)

\* C11: on every registry, cyclic or not, and for every given types the walk
\* of BuildPossibilityTree ends with a tree: at every moment the output types
\* down the open calls, and in the end down every root-to-leaf path, are
\* pairwise different and not among the given types, so no chain is longer
\* than the number of output types of the registry; the tree returned is one
\* the builder can return
C11_Terminates == []C11_Chains /\ <>Built

\* a cyclic registry whose tree has a chain through every output type
C11_Witness ==
    /\ Built
    /\ ~IsDAG(pm)
    /\ Cardinality(Outputs(pm)) >= 2
    /\ \E p \in PathsFrom(pm, tree[1]) : Len(p) = Cardinality(Outputs(pm))

====
